---------------------------- MODULE Spec2Model ----------------------------
(***************************************************************************)
(* A model of the SEEDS simulation core:                                   *)
(*   - seeds/ActionManager.py   : priority-ordered actions                 *)
(*   - seeds/Experiment.py      : experiment lifecycle                     *)
(*   - seeds/plugins/topology/MooreTopology.py : lattice neighbour graph   *)
(* Each component has its own specification (SpecAM, SpecCtor, SpecRuns,   *)
(* SpecExp, SpecTopo); the variables of the other components stay at their *)
(* initial values.  SpecCtor starts before ActionManager.__init__ runs.    *)
(***************************************************************************)
EXTENDS Integers, Sequences, FiniteSets, TLC

VARIABLES
    \* ---- ActionManager (one instance) ----
    actions,      \* self.actions: the heapq list of (priority, action) entries
    updated,      \* ids of the actions whose update() ran in the last update()
    torn,         \* ids of the actions whose teardown() ran in the last teardown()
    amOp,         \* the last ActionManager operation called
    \* ---- ActionManager.__init__ and what it reads ----
    fs,           \* the file system at the output path and at its sibling
    fs0,          \* the file system ActionManager.__init__ found
    actionstring, \* the 'actions' option of the configuration
    plugins,      \* the plugin resolver's answer for each configured name
    log,          \* what __init__ did, in order
    ctor,         \* "pending", "done", or the exception __init__ raised
    \* ---- two ActionManager instances fed the same add_action calls ----
    run1, run2,           \* self.actions of each run
    visited1, visited2,   \* the visit order of each run's last update()
    \* ---- Experiment ----
    config,       \* self.config: the configuration values the experiment reads
    epoch,        \* self.epoch
    is_setup,     \* self.is_setup
    proceed,      \* self.proceed
    seed,         \* self.seed
    data,         \* self.data (its keys)
    resources,    \* self.resources: name -> Resource object
    attrs,        \* the attributes assigned outside __init__ that exist so far
    experiment_epochs,    \* self.experiment_epochs (when in attrs)
    population,   \* self.population (when in attrs)
    rng,          \* the seed last given to random.seed, <<>> before that
    objects,      \* how many collaborator objects have been constructed
    setups,       \* how often the body of setup() has been entered
    calls,        \* the collaborator calls made by the last operation, in order
    last,         \* the last operation called and its outcome
    count,        \* how often each operation has been called
    yielded,      \* the values next() has returned so far, in order
    \* ---- MooreTopology ----
    size,         \* self.size
    radius,       \* self.radius
    periodic,     \* self.periodic
    G,            \* the graph moore_2d_graph is building
    cursor        \* the node the loop "for n in G.nodes()" visits next

amVars   == <<actions, updated, torn, amOp>>
ctorVars == <<fs, fs0, actionstring, plugins, log, ctor>>
runVars  == <<run1, run2, visited1, visited2>>
expVars  == <<config, epoch, is_setup, proceed, seed, data, resources, attrs,
              experiment_epochs, population, rng, objects, setups, calls,
              last, count, yielded>>
topoVars == <<size, radius, periodic, G, cursor>>

-----------------------------------------------------------------------------
(* Bounds *)

\* The number of actions a run registers
MaxActions == 3

\* The number of Experiment operations a run calls
MaxCalls == 3

\* The largest configured number of epochs
MaxEpochs == 2

\* The length of the configured 'actions' string
MaxString == 3

\* The largest lattice side length and interaction radius
MaxSize == 3
MaxRadius == 3

\* action.priority values (signed integers, repeats allowed)
Priorities == {-1, 0, 1}

\* Object identities (memory addresses) an Action object may get
Addrs == 1..MaxActions

-----------------------------------------------------------------------------
(* Generic helpers *)

Range(s) == {s[i] : i \in 1..Len(s)}

Reverse(s) == [i \in 1..Len(s) |-> s[Len(s) + 1 - i]]

IsPermutationOf(s, S) ==
    /\ Len(s) = Cardinality(S)
    /\ Range(s) = S

-----------------------------------------------------------------------------
(* ActionManager *)

\* Comparison of two Action objects that define no ordering of their own:
\* Python 2 falls back on object identity (address).
ActionLess(a, b) == a.addr < b.addr

\* Python tuple comparison of (priority, action) entries: the first
\* differing component decides.
EntryLess(x, y) ==
    IF x.priority # y.priority
    THEN x.priority < y.priority
    ELSE ActionLess(x.action, y.action)

\* heapq._siftdown(heap, 0, pos) with newitem held aside
RECURSIVE SiftDown(_, _, _)
SiftDown(heap, newitem, pos) ==
    IF pos > 1
    THEN LET parentpos == pos \div 2      \* 1-based form of (pos - 1) >> 1
             parent    == heap[parentpos]
         IN  IF EntryLess(newitem, parent)
             THEN SiftDown([heap EXCEPT ![pos] = parent], newitem, parentpos)
             ELSE [heap EXCEPT ![pos] = newitem]
    ELSE [heap EXCEPT ![pos] = newitem]

\* heapq.heappush(heap, item)
HeapPush(heap, item) ==
    LET appended == Append(heap, item)
    IN  SiftDown(appended, item, Len(appended))

\* Stable insertion of x into the ascending list s (after its equals)
RECURSIVE InsertSorted(_, _)
InsertSorted(s, x) ==
    IF s = <<>> THEN <<x>>
    ELSE IF EntryLess(x, s[1]) THEN <<x>> \o s
    ELSE <<s[1]>> \o InsertSorted(Tail(s), x)

RECURSIVE SortAscending(_)
SortAscending(s) ==
    IF s = <<>> THEN <<>>
    ELSE InsertSorted(SortAscending(SubSeq(s, 1, Len(s) - 1)), s[Len(s)])

\* sorted(list, reverse=True): a stable sort that keeps equal entries in
\* their original order, largest first.
SortedReverse(s) == Reverse(SortAscending(Reverse(s)))

\* add_action: heapq.heappush(self.actions, (action.priority, action))
add_action(heap, action) ==
    HeapPush(heap, [priority |-> action.priority, action |-> action])

\* The actions update() calls, in call order
UpdateVisitsMutant(heap) ==
    LET s == SortAscending(heap) IN [i \in 1..Len(s) |-> s[i].action.id]

UpdateVisits(heap) ==
    LET s == SortedReverse(heap) IN [i \in 1..Len(s) |-> s[i].action.id]

\* The actions teardown() calls, in call order
TeardownVisitsMutant(heap) ==
    LET s == SortAscending(heap) IN [i \in 1..Len(s) |-> s[i].action.id]

TeardownVisits(heap) ==
    LET s == SortedReverse(heap) IN [i \in 1..Len(s) |-> s[i].action.id]

\* An Action object not yet registered: a fresh id (its position in the
\* sequence of add_action calls) and an address no live object has.
NewAction(heap, p, a) == [id |-> Len(heap) + 1, priority |-> p, addr |-> a]

UsedAddrs(heap) == {heap[i].action.addr : i \in 1..Len(heap)}

AMInit ==
    /\ actions = <<>>
    /\ updated = <<>>
    /\ torn = <<>>
    /\ amOp = "init"

AddAction ==
    \E p \in Priorities, a \in Addrs \ UsedAddrs(actions) :
        /\ ctor = "done"
        /\ Len(actions) < MaxActions
        /\ actions' = add_action(actions, NewAction(actions, p, a))
        /\ amOp' = "add_action"
        /\ UNCHANGED <<updated, torn, ctorVars, runVars, expVars, topoVars>>

AMUpdate ==
    /\ ctor = "done"
    /\ updated' = UpdateVisits(actions)
    /\ amOp' = "update"
    /\ UNCHANGED <<actions, torn, ctorVars, runVars, expVars, topoVars>>

AMTeardown ==
    /\ ctor = "done"
    /\ torn' = TeardownVisits(actions)
    /\ amOp' = "teardown"
    /\ UNCHANGED <<actions, updated, ctorVars, runVars, expVars, topoVars>>

\* ---- two runs performing the same add_action calls ----

RunsInit ==
    /\ run1 = <<>>
    /\ run2 = <<>>
    /\ visited1 = <<>>
    /\ visited2 = <<>>

RunsAdd ==
    \E p \in Priorities,
       a1 \in Addrs \ UsedAddrs(run1),
       a2 \in Addrs \ UsedAddrs(run2) :
        /\ Len(run1) < MaxActions
        /\ run1' = add_action(run1, NewAction(run1, p, a1))
        /\ run2' = add_action(run2, NewAction(run2, p, a2))
        /\ UNCHANGED <<visited1, visited2, amVars, ctorVars, expVars,
                       topoVars>>

RunsUpdate ==
    /\ visited1' = UpdateVisits(run1)
    /\ visited2' = UpdateVisits(run2)
    /\ UNCHANGED <<run1, run2, amVars, ctorVars, expVars, topoVars>>

-----------------------------------------------------------------------------
(* Experiment *)

NoSeed == -1          \* seed = -1: no seed given
Unbounded == -1       \* epochs = -1: run without limit

ResourceNames == {"a", "b"}

\* The comma-separated "resources" option, split and stripped
ResourceLists ==
    {<<>>, <<"a">>, <<"a", "b">>, <<"b", "a">>, <<"a", "a">>}

\* Orders in which a dict of resources may be iterated
ResourceOrders == {<<"a", "b">>, <<"b", "a">>}

\* Values int(time.time()*10) may give
TimeSeeds == {11, 12}

EmptyMap == [n \in {} |-> 0]

\* The configurations an experiment may be constructed with: the options of
\* section "Experiment" (which exists, otherwise __init__ raises), the names
\* that have a "Resource:<name>" section (those of unlisted resources are
\* never looked at), and whether the population finds its plugins.
Configs ==
    {c \in [epochs     : {Unbounded} \cup (0..MaxEpochs),
            seed       : {NoSeed, 5},
            resources  : ResourceLists,
            sections   : SUBSET ResourceNames,
            plugins    : {"ok", "TopologyPluginNotFoundError",
                          "CellPluginNotFoundError"}] :
        c.sections \subseteq Range(c.resources)}

Operations == {"setup", "update", "next", "end", "teardown"}

NoCall == [op |-> "init", raised |-> "none", returned |-> <<>>]

\* The experiment object as a record, with the outcome of the operation
\* being executed: the exception it raised and the value it returned.
Self ==
    [config |-> config, epoch |-> epoch, is_setup |-> is_setup,
     proceed |-> proceed, seed |-> seed, data |-> data,
     resources |-> resources, attrs |-> attrs,
     experiment_epochs |-> experiment_epochs, population |-> population,
     rng |-> rng, objects |-> objects, setups |-> setups,
     calls |-> <<>>, raised |-> "none", returned |-> <<>>]

Raise(s, exc) == [s EXCEPT !.raised = exc]

Call(s, what, whom, name) ==
    [s EXCEPT !.calls = Append(@, <<what, whom, name>>)]

\* Resource.name of a Resource constructed with label=res
ResourceName(res) == res

\* The loop skipping a resource without a section instead of raising
RECURSIVE LoadResourcesMutant(_, _)
LoadResourcesMutant(s, reslist) ==
    IF reslist = <<>> THEN s
    ELSE LET res == Head(reslist) IN
         IF res \notin s.config.sections
         THEN LoadResourcesMutant(s, Tail(reslist))
         ELSE LET r  == s.objects + 1
                  s1 == Call([s EXCEPT !.objects = r], "new", "Resource", res)
                  s2 == IF ResourceName(res) \notin DOMAIN s1.resources
                        THEN [s1 EXCEPT !.resources = @ @@ (ResourceName(res) :> r)]
                        ELSE s1
              IN  LoadResourcesMutant(s2, Tail(reslist))

\* Lines 117-127: the loop over the configured resource names
RECURSIVE LoadResources(_, _)
LoadResources(s, reslist) ==
    IF reslist = <<>> THEN s
    ELSE LET res == Head(reslist) IN
         IF res \notin s.config.sections
         THEN Raise(s, "ConfigurationError")
         ELSE LET r  == s.objects + 1
                  s1 == Call([s EXCEPT !.objects = r], "new", "Resource", res)
                  s2 == IF ResourceName(res) \notin DOMAIN s1.resources
                        THEN [s1 EXCEPT !.resources = @ @@ (ResourceName(res) :> r)]
                        ELSE s1
              IN  LoadResources(s2, Tail(reslist))

\* Lines 143-148: Population(experiment=self, label=poplabel)
ConstructPopulation(s) ==
    IF s.config.plugins # "ok"
    THEN Raise(s, s.config.plugins)
    ELSE LET o == s.objects + 1
         IN  Call([s EXCEPT !.objects = o, !.population = o,
                            !.attrs = @ \cup {"population"}],
                  "new", "Population", "")

\* The parameters of ActionManager.__init__ besides self
ActionManagerInitParams == {"world"}

\* The keyword Experiment.setup passes to ActionManager(...)
ActionManagerCallKeyword == "experiment"

\* Line 150: self.action_manager = ActionManager(experiment=self).  A keyword
\* that names no parameter of __init__ raises TypeError before its body runs.
ConstructActionManager(s) ==
    IF ActionManagerCallKeyword \notin ActionManagerInitParams
    THEN Raise(s, "TypeError")
    ELSE Call([s EXCEPT !.objects = @ + 1,
                        !.attrs = @ \cup {"action_manager"}],
              "new", "ActionManager", "")

\* Experiment.setup
Experiment_setup(s, now) ==
    LET s1 == IF s.seed = NoSeed
              THEN IF s.config.seed # NoSeed
                   THEN [s EXCEPT !.seed = s.config.seed]
                   ELSE [s EXCEPT !.seed = now]
              ELSE s
        s2 == [s1 EXCEPT !.rng = <<s1.seed>>, !.config.seed = s1.seed,
                         !.setups = @ + 1]
        s3 == [s2 EXCEPT !.experiment_epochs = s2.config.epochs,
                         !.attrs = @ \cup {"experiment_epochs", "plugin_manager"}]
        s4 == LoadResources([s3 EXCEPT !.data = @ \cup {"resources"}],
                            s3.config.resources)
        s5 == IF s4.raised # "none" THEN s4
              ELSE ConstructPopulation([s4 EXCEPT !.data = @ \cup {"population"}])
        s6 == IF s5.raised # "none" THEN s5 ELSE ConstructActionManager(s5)
    IN  IF s6.raised # "none" THEN s6 ELSE [s6 EXCEPT !.is_setup = TRUE]

\* [self.resources[res].<what>() for res in self.resources], the dict being
\* iterated in the order `order`
RECURSIVE CallResources(_, _, _)
CallResources(s, what, order) ==
    IF order = <<>> THEN s
    ELSE CallResources(
            IF Head(order) \in DOMAIN s.resources
            THEN Call(s, what, "Resource", Head(order))
            ELSE s,
            what, Tail(order))

\* Experiment.update
Experiment_update(s, now, order) ==
    LET s1 == IF ~s.is_setup THEN Experiment_setup(s, now) ELSE s
    IN  IF s1.raised # "none" THEN s1
        ELSE IF "action_manager" \notin s1.attrs THEN Raise(s1, "AttributeError")
        ELSE LET s2 == Call(s1, "update", "ActionManager", "")
                 s3 == CallResources(s2, "update", order)
             IN  IF "population" \notin s3.attrs THEN Raise(s3, "AttributeError")
                 ELSE LET s4 == Call(s3, "update", "Population", "")
                          s5 == [s4 EXCEPT !.epoch = @ + 1]
                      IN  IF s5.experiment_epochs # Unbounded
                             /\ s5.epoch >= s5.experiment_epochs
                          THEN [s5 EXCEPT !.proceed = FALSE]
                          ELSE s5

\* next() without the test of proceed
Experiment_nextMutant(s, now, order) ==
    LET u == Experiment_update(s, now, order)
    IN  IF u.raised # "none" THEN u
        ELSE [u EXCEPT !.returned = <<u.epoch>>]

\* Experiment.next
Experiment_next(s, now, order) ==
    IF ~s.proceed
    THEN Raise(s, "StopIteration")
    ELSE LET u == Experiment_update(s, now, order)
         IN  IF u.raised # "none" THEN u
             ELSE [u EXCEPT !.returned = <<u.epoch>>]

\* Experiment.teardown
Experiment_teardown(s, order) ==
    IF "action_manager" \notin s.attrs THEN Raise(s, "AttributeError")
    ELSE LET s1 == Call(s, "teardown", "ActionManager", "")
             s2 == CallResources(s1, "teardown", order)
         IN  IF "population" \notin s2.attrs THEN Raise(s2, "AttributeError")
             ELSE Call(s2, "teardown", "Population", "")

\* end() that also tears the experiment down
Experiment_endMutant(s) ==
    Experiment_teardown([s EXCEPT !.proceed = FALSE], <<"a", "b">>)

\* Experiment.end
Experiment_end(s) == [s EXCEPT !.proceed = FALSE]

\* Experiment.__init__ with a configuration and a seed
ExpInitWith(cfgs, seeds) ==
    /\ config \in cfgs
    /\ epoch = 0
    /\ is_setup = FALSE
    /\ proceed = TRUE
    /\ seed \in seeds
    /\ data = {}
    /\ resources = EmptyMap
    /\ attrs = {}
    /\ experiment_epochs = Unbounded
    /\ population = 0
    /\ rng = <<>>
    /\ objects = 0
    /\ setups = 0
    /\ calls = <<>>
    /\ last = NoCall
    /\ count = [o \in Operations |-> 0]
    /\ yielded = <<>>

ExpInit == ExpInitWith(Configs, {NoSeed, 7})

\* An experiment that is constructed and never used
ExpIdle ==
    ExpInitWith({[epochs |-> Unbounded, seed |-> NoSeed, resources |-> <<>>,
                  sections |-> {}, plugins |-> "ok"]}, {NoSeed})

NumCalls == count["setup"] + count["update"] + count["next"] + count["end"]
            + count["teardown"]

\* The state and the record of the call after operation `op` ended as `s`
Commit(op, s) ==
    /\ config' = s.config
    /\ epoch' = s.epoch
    /\ is_setup' = s.is_setup
    /\ proceed' = s.proceed
    /\ seed' = s.seed
    /\ data' = s.data
    /\ resources' = s.resources
    /\ attrs' = s.attrs
    /\ experiment_epochs' = s.experiment_epochs
    /\ population' = s.population
    /\ rng' = s.rng
    /\ objects' = s.objects
    /\ setups' = s.setups
    /\ calls' = s.calls
    /\ last' = [op |-> op, raised |-> s.raised, returned |-> s.returned]
    /\ count' = [count EXCEPT ![op] = @ + 1]
    /\ yielded' = IF op = "next" THEN yielded \o s.returned ELSE yielded
    /\ UNCHANGED <<amVars, ctorVars, runVars, topoVars>>

CallSetup ==
    /\ NumCalls < MaxCalls
    /\ \E now \in TimeSeeds : Commit("setup", Experiment_setup(Self, now))

CallUpdate ==
    /\ NumCalls < MaxCalls
    /\ \E now \in TimeSeeds, order \in ResourceOrders :
          Commit("update", Experiment_update(Self, now, order))

CallNext ==
    /\ NumCalls < MaxCalls
    /\ \E now \in TimeSeeds, order \in ResourceOrders :
          Commit("next", Experiment_next(Self, now, order))

CallEnd ==
    /\ NumCalls < MaxCalls
    /\ Commit("end", Experiment_end(Self))

CallTeardown ==
    /\ NumCalls < MaxCalls
    /\ \E order \in ResourceOrders :
          Commit("teardown", Experiment_teardown(Self, order))

-----------------------------------------------------------------------------
(* MooreTopology *)

\* row() that rounds the quotient up
rowMutant(nodeid) == (nodeid + size - 1) \div size

\* MooreTopology.row, with Python 2 integer division
row(nodeid) == nodeid \div size

\* MooreTopology.column
column(nodeid) == nodeid % size

\* MooreTopology.node_id
node_id(r, c) == r * size + c

\* The loops without the diagonal cells
VisitedCellsMutant(n, rows, columns) ==
    LET myrow == n \div size
        mycol == n % size
    IN  {cell \in ((myrow - radius)..(myrow + radius))
                    \X ((mycol - radius)..(mycol + radius)) :
            /\ cell[1] = myrow \/ cell[2] = mycol
            /\ ~(periodic = FALSE /\ (cell[1] < 0 \/ cell[1] >= rows))
            /\ ~(periodic = FALSE /\ (cell[2] < 0 \/ cell[2] >= columns))}

\* The cells (r, c) the two xrange loops of node n reach past their
\* "continue" tests (lines 140-146)
VisitedCells(n, rows, columns) ==
    LET myrow == row(n)
        mycol == column(n)
    IN  {cell \in ((myrow - radius)..(myrow + radius))
                    \X ((mycol - radius)..(mycol + radius)) :
            /\ ~(periodic = FALSE /\ (cell[1] < 0 \/ cell[1] >= rows))
            /\ ~(periodic = FALSE /\ (cell[2] < 0 \/ cell[2] >= columns))}

\* Lines 148-150 without the test nid != n
EdgeCellsMutant(n, rows, columns) == VisitedCells(n, rows, columns)

\* Lines 148-150: the cells for which G.add_edge is called
EdgeCells(n, rows, columns) ==
    {cell \in VisitedCells(n, rows, columns) :
        node_id(cell[1] % rows, cell[2] % columns) # n}

\* neighbor_id without the wrap of the column
NeighborIdMutant(cell, rows, columns) ==
    ((cell[1] % rows) * size) + cell[2]

\* Line 151: neighbor_id
NeighborId(cell, rows, columns) ==
    ((cell[1] % rows) * size) + (cell[2] % columns)

\* networkx Graph.add_edge(n, t) for every t of targets: the end points are
\* added as nodes, and each edge unless it is there already.  edges maps
\* each joined set of end points to the number of edges joining them.
AddEdges(g, n, targets) ==
    LET joined == {{n, t} : t \in targets}
    IN  [nodes |-> g.nodes \cup UNION joined,
         edges |-> [ends \in DOMAIN g.edges \cup joined |->
                      IF ends \in DOMAIN g.edges THEN g.edges[ends] ELSE 1]]

\* Lines 136-152: the body of the loop over the nodes, for node n
VisitNode(g, n, rows, columns) ==
    AddEdges(g, n, {NeighborId(cell, rows, columns) :
                        cell \in EdgeCells(n, rows, columns)})

\* MooreTopology.__init__ up to the start of the loop of moore_2d_graph
\* (rows = columns = self.size): the nodes are there, no edge is.
TopoInitWith(sizes, radii) ==
    /\ size \in sizes
    /\ radius \in radii
    /\ periodic \in BOOLEAN
    /\ G = [nodes |-> 0..(size * size - 1), edges |-> EmptyMap]
    /\ cursor = 0

TopoInit == TopoInitWith(1..MaxSize, 0..MaxRadius)

\* A topology that is never built
TopoIdle ==
    /\ size = 1
    /\ radius = 0
    /\ periodic = FALSE
    /\ G = [nodes |-> {0}, edges |-> EmptyMap]
    /\ cursor = 0

\* moore_2d_graph has returned G
Returned == cursor = size * size

\* One iteration of "for n in G.nodes()"
MooreStep ==
    /\ cursor < size * size
    /\ G' = VisitNode(G, cursor, size, size)
    /\ cursor' = cursor + 1
    /\ UNCHANGED <<size, radius, periodic, amVars, ctorVars, runVars,
                 expVars>>

-----------------------------------------------------------------------------
(* ActionManager.__init__ and setup_actions (seeds/ActionManager.py) *)

\* What a path names: nothing, a regular file, or a directory with entries
Absent == [kind |-> "absent", entries |-> EmptyMap]
File == [kind |-> "file", entries |-> EmptyMap]
Dir(entries) == [kind |-> "dir", entries |-> entries]

\* os.path.basename of data_dir (default 'data')
Basename == "data"

\* The states of the output path and of the path data_dir + '-' + timestamp
\* that __init__ may find
FileSystems ==
    [data    : {Absent, File, Dir("x" :> File)},
     sibling : {Absent, File, Dir(EmptyMap), Dir(Basename :> File)}]

\* os.path.exists
os_path_exists(node) == node.kind # "absent"

\* The characters of the 'actions' option: word characters and a separator
WordChars == {"a", "b"}
Chars == WordChars \cup {","}

\* re.split('\W+', string): the pieces between the maximal runs of non-word
\* characters, the empty pieces at both ends included
RECURSIVE SplitFrom(_, _, _, _)
SplitFrom(string, i, piece, pieces) ==
    IF i > Len(string) THEN Append(pieces, piece)
    ELSE IF string[i] \in WordChars
         THEN SplitFrom(string, i + 1, Append(piece, string[i]), pieces)
         ELSE IF i > 1 /\ string[i - 1] \notin WordChars
              THEN SplitFrom(string, i + 1, piece, pieces)
              ELSE SplitFrom(string, i + 1, <<>>, Append(pieces, piece))

re_split(string) == SplitFrom(string, 1, <<>>, <<>>)

\* The names setup_actions loops over
ActionList(string) == IF Len(string) > 0 THEN re_split(string) ELSE <<>>

\* What the plugin resolver knows of a name: plugin_exists is false; get_plugin
\* returns None; it returns a class that is no subclass of Action; it returns
\* an Action class
Kinds == {"unknown", "none", "notaction", "action"}

ActionStrings ==
    {s \in UNION {[1..n -> Chars] : n \in 0..MaxString} :
        Len(ActionList(s)) <= MaxActions}

\* The state __init__ works on: the file system, self.actions, what it has
\* done so far and the exception it raised
Ctor(f) == [fs |-> f, actions |-> <<>>, log |-> <<>>, raised |-> "none"]

\* shutil.move(data_dir, newname)
shutil_move(c) ==
    LET src == c.fs.data
        dst == c.fs.sibling
    IN  IF dst.kind = "dir"
        THEN IF Basename \in DOMAIN dst.entries
             THEN [c EXCEPT !.raised = "shutil.Error"]
             ELSE [c EXCEPT !.fs.data = Absent,
                            !.fs.sibling.entries = @ @@ (Basename :> src),
                            !.log = Append(@, <<"move">>)]
        ELSE IF dst.kind = "file" /\ src.kind = "dir"
             THEN [c EXCEPT !.raised = "OSError"]
             ELSE [c EXCEPT !.fs.data = Absent, !.fs.sibling = src,
                            !.log = Append(@, <<"move">>)]

\* os.mkdir(data_dir)
os_mkdir(c) ==
    IF os_path_exists(c.fs.data)
    THEN [c EXCEPT !.raised = "OSError"]
    ELSE [c EXCEPT !.fs.data = Dir(EmptyMap), !.log = Append(@, <<"mkdir">>)]

\* The loop of setup_actions giving up at the first name it cannot resolve
RECURSIVE SetupLoopMutant(_, _, _, _, _)
SetupLoopMutant(c, actionlist, pm, prio, addr) ==
    IF actionlist = <<>> THEN c
    ELSE LET action == Head(actionlist)
             k      == Len(c.actions) + 1
         IN  IF pm[action] = "action"
             THEN SetupLoopMutant(
                     [c EXCEPT !.actions = add_action(@,
                                   NewAction(@, prio[k], addr[k])),
                               !.log = Append(@, <<"new", action>>)],
                     Tail(actionlist), pm, prio, addr)
             ELSE [c EXCEPT !.log = Append(@, <<"print", pm[action], action>>)]

\* Lines 64-76: the loop "for action in actionlist".  pm is the plugin
\* resolver; prio and addr are the priority and the address of the k-th Action
\* object constructed.
RECURSIVE SetupLoop(_, _, _, _, _)
SetupLoop(c, actionlist, pm, prio, addr) ==
    IF actionlist = <<>> THEN c
    ELSE LET action == Head(actionlist)
             k      == Len(c.actions) + 1
         IN  IF pm[action] = "action"
             THEN SetupLoop(
                     [c EXCEPT !.actions = add_action(@,
                                   NewAction(@, prio[k], addr[k])),
                               !.log = Append(@, <<"new", action>>)],
                     Tail(actionlist), pm, prio, addr)
             ELSE SetupLoop(
                     [c EXCEPT !.log = Append(@, <<"print", pm[action], action>>)],
                     Tail(actionlist), pm, prio, addr)

\* ActionManager.setup_actions
setup_actions(c, string, pm, prio, addr) ==
    IF Len(string) > 0
    THEN SetupLoop(c, re_split(string), pm, prio, addr)
    ELSE c

\* ActionManager.__init__
ActionManager_init(f, string, pm, prio, addr) ==
    LET c0 == Ctor(f)
        c1 == IF os_path_exists(c0.fs.data) THEN shutil_move(c0) ELSE c0
        c2 == IF c1.raised # "none" THEN c1 ELSE os_mkdir(c1)
    IN  IF c2.raised # "none" THEN c2
        ELSE setup_actions([c2 EXCEPT !.actions = <<>>], string, pm, prio, addr)

\* How many Action objects setup_actions constructs
NumResolved(string, pm) ==
    Len(SelectSeq(ActionList(string), LAMBDA n : pm[n] = "action"))

\* The addresses of k objects alive at the same time
Addresses(k) ==
    {a \in [1..k -> Addrs] : \A i, j \in 1..k : i # j => a[i] # a[j]}

\* Before ActionManager(world) is called
CtorInit ==
    /\ fs \in FileSystems
    /\ fs0 = fs
    /\ actionstring \in ActionStrings
    /\ plugins \in [Range(ActionList(actionstring)) -> Kinds]
    /\ log = <<>>
    /\ ctor = "pending"

\* An ActionManager constructed with no configured action in a fresh
\* directory
CtorIdle ==
    /\ fs = [data |-> Dir(EmptyMap), sibling |-> Absent]
    /\ fs0 = [data |-> Absent, sibling |-> Absent]
    /\ actionstring = <<>>
    /\ plugins = EmptyMap
    /\ log = <<<<"mkdir">>>>
    /\ ctor = "done"

\* ActionManager(world)
Construct ==
    /\ ctor = "pending"
    /\ \E prio \in [1..NumResolved(actionstring, plugins) -> Priorities],
          addr \in Addresses(NumResolved(actionstring, plugins)) :
          LET c == ActionManager_init(fs, actionstring, plugins, prio, addr)
          IN  /\ fs' = c.fs
              /\ actions' = c.actions
              /\ log' = c.log
              /\ ctor' = IF c.raised = "none" THEN "done" ELSE c.raised
    /\ amOp' = "init"
    /\ UNCHANGED <<fs0, actionstring, plugins, updated, torn, runVars,
                   expVars, topoVars>>

-----------------------------------------------------------------------------
(* Specifications *)

vars == <<amVars, ctorVars, runVars, expVars, topoVars>>

NextExp == CallSetup \/ CallUpdate \/ CallNext \/ CallEnd \/ CallTeardown

InitExp == AMInit /\ CtorIdle /\ RunsInit /\ ExpInit /\ TopoIdle

SpecExp == InitExp /\ [][NextExp]_vars

NextAM == AddAction \/ AMUpdate \/ AMTeardown

InitAM == AMInit /\ CtorIdle /\ RunsInit /\ ExpIdle /\ TopoIdle

SpecAM == InitAM /\ [][NextAM]_vars

NextRuns == RunsAdd \/ RunsUpdate

InitRuns == AMInit /\ CtorIdle /\ RunsInit /\ ExpIdle /\ TopoIdle

SpecRuns == InitRuns /\ [][NextRuns]_vars

InitTopo == AMInit /\ CtorIdle /\ RunsInit /\ ExpIdle /\ TopoInit

NextTopo == MooreStep

SpecTopo == InitTopo /\ [][NextTopo]_vars

InitCtor == AMInit /\ CtorInit /\ RunsInit /\ ExpIdle /\ TopoIdle

NextCtor == Construct \/ AMUpdate

SpecCtor == InitCtor /\ [][NextCtor]_vars

-----------------------------------------------------------------------------
(* Claims about ActionManager *)

RegisteredIds(heap) == {heap[i].action.id : i \in 1..Len(heap)}

PriorityOf(heap, id) ==
    heap[CHOOSE i \in 1..Len(heap) : heap[i].action.id = id].priority

NonIncreasing(heap, visits) ==
    \A i, j \in 1..Len(visits) :
        i < j => PriorityOf(heap, visits[i]) >= PriorityOf(heap, visits[j])

HasTie(heap) ==
    \E i, j \in 1..Len(heap) : i # j /\ heap[i].priority = heap[j].priority

HasDistinctPriorities(heap) ==
    \E i, j \in 1..Len(heap) : heap[i].priority # heap[j].priority

\* C1: one call of update() invokes the update operation of every registered
\* action exactly once, and the priorities of the actions visited form a
\* non-increasing sequence (priorities may repeat).
C1_UpdateVisitsEachOnceByPriority ==
    amOp = "update" =>
        /\ IsPermutationOf(updated, RegisteredIds(actions))
        /\ NonIncreasing(actions, updated)

C1_Witness ==
    /\ amOp = "update"
    /\ Len(updated) >= 3
    /\ HasTie(actions)
    /\ HasDistinctPriorities(actions)

\* C7: one call of teardown() invokes the teardown operation of every
\* registered action exactly once, in the same non-increasing priority order
\* that update() uses on the same registered actions.
C7_TeardownVisitsEachOnceLikeUpdate ==
    amOp = "teardown" =>
        /\ IsPermutationOf(torn, RegisteredIds(actions))
        /\ NonIncreasing(actions, torn)
        /\ (Len(updated) = Len(actions) => torn = updated)

C7_Witness ==
    /\ amOp = "teardown"
    /\ Len(torn) >= 3
    /\ torn = updated
    /\ HasTie(actions)
    /\ HasDistinctPriorities(actions)

\* C8: two runs that perform the same sequence of add_action calls visit the
\* actions in the same order, also when priorities are equal.
C8_SameAddsSameVisitOrder ==
    visited1 = visited2

-----------------------------------------------------------------------------
(* Claims about Experiment *)

\* A configuration setup() is meant to accept: every listed resource has its
\* "Resource:<name>" section and the population finds its plugins.
ValidConfig == 
    /\ Range(config.resources) \subseteq config.sections
    /\ config.plugins = "ok"

Min(a, b) == IF a < b THEN a ELSE b

\* The calls of kind `what` made by the last operation are: the scheduler's,
\* then one per registered resource, then the population's.
OrderedCycle(what) ==
    LET c == SelectSeq(calls, LAMBDA x : x[1] = what)
        n == Len(c)
    IN  /\ n = Cardinality(DOMAIN resources) + 2
        /\ c[1] = <<what, "ActionManager", "">>
        /\ c[n] = <<what, "Population", "">>
        /\ \A i \in 2..(n - 1) : c[i][2] = "Resource"
        /\ {c[i][3] : i \in 2..(n - 1)} = DOMAIN resources

\* C2: for every total-epochs E >= 0, repeatedly calling next() on a fresh
\* experiment yields exactly the values 1..E in order and then signals
\* StopIteration; proceed is false exactly once epoch has reached E.
C2_NextYieldsOneToE ==
    (ValidConfig /\ config.epochs >= 0 /\ NumCalls = count["next"]) =>
        LET E == config.epochs
            n == count["next"]
        IN  /\ yielded = [i \in 1..Min(n, E) |-> i]
            /\ (n > E => last.raised = "StopIteration")
            /\ ((n >= 1 /\ n <= E) => last.raised = "none")
            /\ (E >= 1 => (proceed <=> epoch < E))

\* C3: with total-epochs unbounded, after k calls of update() epoch equals k,
\* and update() never sets proceed to false.
C3_EpochCountsUpdates ==
    (ValidConfig /\ config.epochs = Unbounded /\ count["next"] = 0) =>
        /\ epoch = count["update"]
        /\ (count["end"] = 0 => proceed)

\* C4: every update() cycle calls the scheduler's update, then the update of
\* every registered resource exactly once, then the population's update, and
\* then increments epoch; the increment is never skipped.
C4_UpdateCycleInOrder ==
    (ValidConfig /\ last.op = "update") =>
        /\ last.raised = "none"
        /\ OrderedCycle("update")
        /\ epoch >= 1

\* C5: end() sets proceed to false and changes nothing else (no teardown
\* call, epoch unchanged); every later next() signals StopIteration without
\* performing an update cycle.
C5_EndOnlyStopsIteration ==
    [][ /\ (last'.op = "end" /\ count'["end"] = count["end"] + 1) =>
              /\ proceed' = FALSE
              /\ last'.raised = "none"
              /\ calls' = <<>>
              /\ UNCHANGED <<config, epoch, is_setup, seed, data, resources,
                             attrs, experiment_epochs, population, rng,
                             objects, setups, yielded>>
        /\ (count["end"] > 0 /\ last'.op = "next"
              /\ count'["next"] = count["next"] + 1) =>
              /\ last'.raised = "StopIteration"
              /\ calls' = <<>>
              /\ UNCHANGED <<config, epoch, is_setup, proceed, seed, data,
                             resources, attrs, experiment_epochs, population,
                             rng, objects, setups, yielded>>
      ]_vars

C5_Witness ==
    /\ count["end"] > 0
    /\ config.epochs = Unbounded
    /\ last.op = "next"
    /\ last.raised = "StopIteration"

\* C6: in every state reached by iteration exhaustion or by end(), teardown()
\* calls the scheduler's teardown, then each registered resource's teardown
\* exactly once, then the population's teardown, and completes without error.
C6_TeardownAfterEndCompletes ==
    (ValidConfig /\ ~proceed /\ last.op = "teardown") =>
        /\ last.raised = "none"
        /\ OrderedCycle("teardown")

\* C9: setup() on a valid configuration makes the experiment ready and
\* constructs the resources, then the population, then the scheduler last.
C9_SetupReachesReady ==
    (ValidConfig /\ last.op = "setup") =>
        LET n == Len(config.resources)
        IN  /\ last.raised = "none"
            /\ is_setup
            /\ Len(calls) = n + 2
            /\ \A i \in 1..n : calls[i] = <<"new", "Resource", config.resources[i]>>
            /\ calls[n + 1] = <<"new", "Population", "">>
            /\ calls[n + 2] = <<"new", "ActionManager", "">>

-----------------------------------------------------------------------------
(* Claims about MooreTopology *)

Neighbors(g, n) == {m \in g.nodes : {n, m} \in DOMAIN g.edges}

\* C10: for every size >= 1, radius >= 0 (also radius >= size) and periodic
\* flag, the graph moore_2d_graph returns has exactly the nodes
\* 0..size*size-1, no self-loop, and at most one edge between any two nodes.
C10_SimpleGraphOnAllNodes ==
    Returned =>
        /\ G.nodes = 0..(size * size - 1)
        /\ \A ends \in DOMAIN G.edges :
              /\ Cardinality(ends) = 2
              /\ ends \subseteq G.nodes
              /\ G.edges[ends] = 1

\* A periodic lattice whose neighbourhood wraps onto the node itself and
\* reaches the same neighbour through several candidate cells
C10_Witness ==
    /\ Returned
    /\ periodic
    /\ size >= 2
    /\ radius >= size
    /\ \A n \in G.nodes : Neighbors(G, n) = G.nodes \ {n}

\* C11: with radius 1 the topology is the 8-neighbour Moore neighbourhood:
\* for size 3 non-periodic node 0 has the neighbours {1,3,4} and node 4 has
\* {0,1,2,3,5,6,7,8}; for every size >= 3 with periodic = true every node
\* has exactly 8 distinct neighbours.
C11_RadiusOneIsMoore ==
    (Returned /\ radius = 1) =>
        /\ (size = 3 /\ ~periodic) =>
              /\ Neighbors(G, 0) = {1, 3, 4}
              /\ Neighbors(G, 4) = {0, 1, 2, 3, 5, 6, 7, 8}
        /\ (size >= 3 /\ periodic) =>
              \A n \in 0..(size * size - 1) : Cardinality(Neighbors(G, n)) = 8

C11_Witness ==
    /\ Returned
    /\ radius = 1
    /\ size = 3
    /\ periodic
    /\ Neighbors(G, 0) = {1, 2, 3, 4, 5, 6, 7, 8}

\* C12: for every size >= 1 and every id in [0, size*size),
\* node_id(row(id), column(id)) = id; and for every r, c in [0, size),
\* row(node_id(r, c)) = r and column(node_id(r, c)) = c.
C12_NodeIdRoundTrip ==
    /\ \A id \in 0..(size * size - 1) : node_id(row(id), column(id)) = id
    /\ \A r, c \in 0..(size - 1) :
          /\ row(node_id(r, c)) = r
          /\ column(node_id(r, c)) = c

C12_Witness ==
    /\ size = 3
    /\ cursor = 6
    /\ row(5) = 1 /\ column(5) = 2 /\ node_id(1, 2) = 5

Abs(x) == IF x < 0 THEN -x ELSE x

\* Distance between two lattice coordinates, around the torus when periodic
AxisDistance(a, b) ==
    IF periodic
    THEN LET d == (a - b) % size IN IF d < size - d THEN d ELSE size - d
    ELSE Abs(a - b)

Chebyshev(u, v) ==
    LET dr == AxisDistance(u \div size, v \div size)
        dc == AxisDistance(u % size, v % size)
    IN  IF dr > dc THEN dr ELSE dc

\* C17: moore_2d_graph joins two distinct nodes exactly when their Chebyshev
\* distance (toroidal when periodic) is at most radius; a periodic topology
\* with 2*radius+1 >= size is the complete graph on size*size nodes.
C17_EdgesAreChebyshevBall ==
    Returned =>
        /\ \A u, v \in 0..(size * size - 1) :
              u # v => ({u, v} \in DOMAIN G.edges <=> Chebyshev(u, v) <= radius)
        /\ (periodic /\ 2 * radius + 1 >= size) =>
              \A n \in G.nodes : Neighbors(G, n) = (0..(size * size - 1)) \ {n}

C17_Witness ==
    /\ Returned
    /\ periodic
    /\ size = 3
    /\ radius = 1
    /\ Cardinality(DOMAIN G.edges) = 36

\* Some name occurs twice in the configured resource list
HasDuplicate(reslist) ==
    \E i, j \in 1..Len(reslist) : i < j /\ reslist[i] = reslist[j]

\* The serial of the first Resource constructed under `name` by the last
\* operation
FirstConstructed(name) ==
    LET news == SelectSeq(calls, LAMBDA x : x[1] = "new")
        i    == CHOOSE k \in 1..Len(news) :
                    /\ news[k] = <<"new", "Resource", name>>
                    /\ \A l \in 1..(k - 1) : news[l] # news[k]
    IN  (objects - Len(news)) + i

\* C13: when the configured resource list names a resource more than once,
\* setup() ends with exactly one entry under that name, bound to the
\* first-constructed Resource, and setup still completes.
C13_DuplicateKeepsFirstAndCompletes ==
    (ValidConfig /\ HasDuplicate(config.resources)
        /\ last.op = "setup" /\ NumCalls = 1) =>
        /\ DOMAIN resources = Range(config.resources)
        /\ \A n \in DOMAIN resources : resources[n] = FirstConstructed(n)
        /\ last.raised = "none"
        /\ is_setup

\* Some configured resource name has no "Resource:<name>" section
MissingSection == ~(Range(config.resources) \subseteq config.sections)

\* C14: if a configured resource name has no configuration section, setup()
\* fails with ConfigurationError, also when it runs implicitly from update()
\* or next(): is_setup stays false, no population or scheduler is
\* constructed, no update step runs and epoch is unchanged.
C14_MissingSectionIsFatal ==
    MissingSection =>
        /\ ~is_setup
        /\ epoch = 0
        /\ population = 0
        /\ {"population", "action_manager"} \cap attrs = {}
        /\ \A i \in 1..Len(calls) :
              /\ calls[i][1] # "update"
              /\ calls[i][2] \notin {"Population", "ActionManager"}
        /\ (last.op \in {"setup", "update"} \/ (last.op = "next" /\ proceed))
              => last.raised = "ConfigurationError"

C14_Witness ==
    /\ MissingSection
    /\ count["setup"] = 1 /\ count["update"] = 1 /\ count["next"] = 1
    /\ last.raised = "ConfigurationError"
    /\ objects > 0

\* C18: over any sequence of setup(), update() and next() calls, the effects
\* of setup (seeding, construction of resources, population and scheduler)
\* happen exactly once, before the first update step, and never again on
\* later update()/next() calls.
C18_SetupEffectsOnce ==
    (ValidConfig /\ count["setup"] = 0
        /\ count["update"] + count["next"] >= 1 /\ count["end"] = 0) =>
        /\ setups = 1
        /\ objects = Len(config.resources) + 2

\* C19: proceed is true at construction and, once false, no operation sets
\* it back to true; next() signals StopIteration only when proceed is false,
\* so once next() has signalled exhaustion every later next() does too.
C19_ProceedMonotone ==
    /\ proceed = TRUE
    /\ [][ /\ (~proceed => ~proceed')
           /\ (last'.raised = "StopIteration" => ~proceed')
           /\ (~proceed /\ last'.op = "next"
                 /\ count'["next"] = count["next"] + 1)
                 => last'.raised = "StopIteration"
         ]_vars

C19_Witness ==
    /\ ~proceed
    /\ count["next"] = 2
    /\ last.op = "next"
    /\ last.raised = "StopIteration"

\* C20: a direct call of update() made while proceed is false still runs a
\* full cycle (scheduler, resources, population) and increments epoch.
C20_UpdateIgnoresProceed ==
    (ValidConfig /\ ~proceed /\ last.op = "update") =>
        /\ last.raised = "none"
        /\ OrderedCycle("update")
        /\ epoch = count["update"]
        /\ epoch >= 1


\* The names of the Action objects __init__ constructed, in order, and the
\* names it reported instead
Instantiated ==
    LET news == SelectSeq(log, LAMBDA e : e[1] = "new")
    IN  [i \in 1..Len(news) |-> news[i][2]]

Reported ==
    LET prints == SelectSeq(log, LAMBDA e : e[1] = "print")
    IN  [i \in 1..Len(prints) |-> prints[i][3]]

\* C15: setup_actions reports and omits a configured name that is unknown to
\* the resolver, resolves to no object or resolves to a type that is no
\* Action, without aborting; every other configured name is instantiated and
\* registered, so the registered names are exactly the resolvable ones of
\* the configured list.
C15_RegistersExactlyResolvable ==
    ctor = "done" =>
        LET names == ActionList(actionstring)
        IN  /\ Instantiated =
                  SelectSeq(names, LAMBDA n : plugins[n] = "action")
            /\ Reported = SelectSeq(names, LAMBDA n : plugins[n] # "action")
            /\ {actions[i].action.id : i \in 1..Len(actions)}
                  = 1..Len(Instantiated)
            /\ Len(actions) = Len(Instantiated)

C15_Witness ==
    /\ ctor = "done"
    /\ LET names == ActionList(actionstring)
       IN  \E i, j \in 1..Len(names) :
              /\ i < j
              /\ names[i] # <<>> /\ names[j] # <<>>
              /\ plugins[names[i]] \in {"unknown", "none", "notaction"}
              /\ plugins[names[j]] = "action"
    /\ Len(actions) >= 1
    /\ Len(Reported) >= 1

\* The directory found at the output path is kept at the sibling path or as
\* the entry of the sibling directory named like the output path
Preserved ==
    \/ fs.sibling = fs0.data
    \/ /\ fs.sibling.kind = "dir"
       /\ Basename \in DOMAIN fs.sibling.entries
       /\ fs.sibling.entries[Basename] = fs0.data
       /\ Basename \notin DOMAIN fs0.sibling.entries

\* C16: whenever a directory exists at the output path when ActionManager is
\* initialized, in any file system state, afterwards the output path is an
\* empty directory and the prior contents are preserved under the sibling
\* path, and this happens before any action is constructed or executed.
C16_RotationInAnyFileSystem ==
    (fs0.data.kind = "dir" /\ ctor # "pending") =>
        /\ ctor = "done"
        /\ fs.data = Dir(EmptyMap)
        /\ Preserved
        /\ \E m \in 1..Len(log) :
              /\ log[m] = <<"mkdir">>
              /\ \A i \in 1..m : log[i][1] \notin {"new", "print"}

=============================================================================
